---- MODULE Spec2Model ----
(***************************************************************************)
(* A model of github2file.py: the reference resolver (check_default_       *)
(* branches / download_repo), the content classifier, the comment and      *)
(* docstring normalizer and the document assembler                         *)
(* (process_repository_files / find_readme_content).                       *)
(*                                                                         *)
(* Text representation.  A path is a sequence of one-character strings, so *)
(* that endswith / startswith / "in" / split / lower are computed on the   *)
(* characters.  A file content is a sequence of lines, every line          *)
(* terminated by a newline; a line is [ind, tok]: ind levels of four       *)
(* spaces followed by the token tok.  The empty content is << >>.          *)
(***************************************************************************)
EXTENDS Integers, Sequences, FiniteSets, TLC

VARIABLES
    pc,              \* position of the run inside download_repo
    lang,            \* --lang
    keep_comments,   \* --keep-comments
    claude,          \* --claude (structured mode)
    include_all,     \* --all
    archive,         \* the opened zip: sequence of entries in native order
    file_exists,     \* the output path exists on disk
    outfile,         \* what has been written to the output path, in order
    readme,          \* (readme_file_path, readme_content)
    names,           \* sorted(zip_file.namelist()), the first-pass iterator
    pos,             \* loop position of the first pass / of the writing pass
    manifest_entries,\* list of (file_path, description, doc_index)
    included_files,  \* list of (file_path, file_content)
    next_doc_index,  \* counter of the first pass
    exit_code,       \* process exit status, NoExit while running
    host,            \* hosting service named by repo_url
    requested_ref,   \* --branch_or_tag as given
    branch_or_tag,   \* the local of download_repo
    lookup,          \* what the branch lookup did
    download_url,    \* result of construct_download_url
    src_text,        \* normalizer harness: the input source
    norm1,           \* normalizer harness: normalize(src_text)
    norm2,           \* normalizer harness: normalize(normalize(src_text))
    rel_path,        \* classifier harness: a path relative to the repository
    tops,            \* classifier harness: two names of the top-level folder
    verdicts,        \* classifier harness: is_likely_useful_file under each
    nodes,           \* DependencyGraph.nodes: sources in insertion order, each
                     \* with its set of targets in the order it iterates
    edges,           \* DependencyGraph.edges
    cycles,          \* DependencyGraph.cycles
    first_result     \* what the first call of detect_cycles returned

vars == <<pc, lang, keep_comments, claude, include_all, archive, file_exists,
          outfile, readme, names, pos, manifest_entries, included_files,
          next_doc_index, exit_code, host, requested_ref, branch_or_tag,
          lookup, download_url, src_text, norm1, norm2, rel_path, tops,
          verdicts, nodes, edges, cycles, first_result>>

(***************************************************************************)
(* Bounds                                                                  *)
(***************************************************************************)
MaxEntries == 2     \* longest archive listing drawn by Init
MaxLines == 3       \* longest source text drawn for the normalizer
MaxInd == 2         \* deepest indentation drawn for the normalizer

(***************************************************************************)
(* Python values                                                           *)
(***************************************************************************)
None == -1          \* doc_index None (indices are >= 0)
NoExit == -1        \* the process has not exited

(***************************************************************************)
(* str operations on character sequences                                   *)
(***************************************************************************)
\* the characters used, in code point order
CodePoints == <<"-", ".", "/", "A", "C", "D", "E", "I", "L", "M", "N", "R",
                "S", "T", "_", "a", "b", "c", "d", "e", "f", "g", "h", "i",
                "j", "k", "l", "m", "n", "o", "p", "r", "s", "t", "u", "v",
                "w", "x", "y">>

Ord(c) == CHOOSE i \in 1..Len(CodePoints) : CodePoints[i] = c

LowerChar(c) ==
    CASE c = "A" -> "a" [] c = "C" -> "c" [] c = "D" -> "d" [] c = "E" -> "e"
      [] c = "I" -> "i" [] c = "L" -> "l" [] c = "M" -> "m" [] c = "N" -> "n"
      [] c = "R" -> "r" [] c = "S" -> "s" [] c = "T" -> "t"
      [] OTHER -> c

Lower(s) == [i \in 1..Len(s) |-> LowerChar(s[i])]

EndsWith(s, suf) ==
    /\ Len(suf) <= Len(s)
    /\ SubSeq(s, Len(s) - Len(suf) + 1, Len(s)) = suf

StartsWith(s, pre) ==
    /\ Len(pre) <= Len(s)
    /\ SubSeq(s, 1, Len(pre)) = pre

\* sub in s
Contains(s, sub) ==
    \E i \in 1..(Len(s) - Len(sub) + 1) : SubSeq(s, i, i + Len(sub) - 1) = sub

\* the first characters of the parts of s.split('/') that are not empty
PartStarts(s) ==
    {s[i] : i \in {j \in 1..Len(s) : s[j] # "/" /\ (j = 1 \/ s[j-1] = "/")}}

\* a < b for str
RECURSIVE StrLess(_, _)
StrLess(a, b) ==
    IF b = <<>> THEN FALSE
    ELSE IF a = <<>> THEN TRUE
    ELSE IF Head(a) = Head(b) THEN StrLess(Tail(a), Tail(b))
    ELSE Ord(Head(a)) < Ord(Head(b))

RECURSIVE Insert(_, _)
Insert(x, s) ==
    IF s = <<>> THEN <<x>>
    ELSE IF StrLess(x, Head(s)) THEN <<x>> \o s
    ELSE <<Head(s)>> \o Insert(x, Tail(s))

\* the list as the archive gives it
Sorted_AsListed(s) == s

\* sorted(list of str); equal elements are kept, all of them
RECURSIVE Sorted(_)
Sorted(s) == IF s = <<>> THEN <<>> ELSE Insert(Head(s), Sorted(Tail(s)))

(***************************************************************************)
(* String literals of the program                                          *)
(***************************************************************************)
s_slash == <<"/">>
s_README_md == <<"R","E","A","D","M","E",".","m","d">>
s_README == <<"R","E","A","D","M","E">>
s_manifest_txt == <<"m","a","n","i","f","e","s","t",".","t","x","t">>
s_test == <<"t","e","s","t">>
s_ellipsis == <<".",".",".","/">>

\* get_language_extensions
get_language_extensions(language) ==
    CASE language = "python" -> {<<".","p","y">>, <<".","p","y","w">>}
      [] language = "go" -> {<<".","g","o">>}
      [] language = "javascript" ->
            {<<".","j","s">>, <<".","j","s","x">>, <<".","t","s">>,
             <<".","t","s","x">>}
      [] language = "java" -> {<<".","j","a","v","a">>}
      [] language = "md" -> {<<".","m","d">>}

is_file_type(file_path, language) ==
    \E ext \in get_language_extensions(language) : EndsWith(file_path, ext)

excluded_dirs(l) ==
    {<<"e","x","a","m","p","l","e","s">>, <<"t","e","s","t","s">>,
     <<"t","e","s","t">>, <<"s","c","r","i","p","t","s">>,
     <<"u","t","i","l","s">>, <<"b","e","n","c","h","m","a","r","k","s">>}
    \cup (IF l = "python"
             THEN {<<"_","_","p","y","c","a","c","h","e","_","_">>}
          ELSE IF l = "go" THEN {<<"v","e","n","d","o","r">>}
          ELSE {})

utility_or_config_files(l) ==
    IF l = "python"
       THEN {<<"h","u","b","c","o","n","f",".","p","y">>,
             <<"s","e","t","u","p",".","p","y">>}
    ELSE IF l = "go"
       THEN {<<"g","o",".","m","o","d">>, <<"g","o",".","s","u","m">>,
             <<"M","a","k","e","f","i","l","e">>}
    ELSE {}

workflow_or_docs(l) ==
    {<<".","g","i","t","h","u","b">>,
     <<".","g","i","t","l","a","b","-","c","i",".","y","m","l">>,
     <<".","g","i","t","i","g","n","o","r","e">>,
     <<"L","I","C","E","N","S","E">>, s_README}
    \cup (IF l = "python"
             THEN {<<"s","t","a","l","e",".","p","y">>,
                   <<"g","e","n","-","c","a","r","d","-">>,
                   <<"w","r","i","t","e","_","m","o","d","e","l","_","c","a","r","d">>}
          ELSE {})

\* the excluded-directory loop of is_likely_useful_file
UnderExcludedDir(file_path, l) ==
    \E d \in excluded_dirs(l) :
        \/ Contains(file_path, s_slash \o d \o s_slash)
        \/ StartsWith(file_path, d \o s_slash)

\* the filters without the loop over excluded_dirs
is_likely_useful_file_NoDirRule(file_path, l) ==
    IF "." \in PartStarts(file_path) THEN FALSE
    ELSE IF Contains(Lower(file_path), s_test) THEN FALSE
    ELSE IF \E f \in utility_or_config_files(l) : Contains(file_path, f)
        THEN FALSE
    ELSE IF \E f \in workflow_or_docs(l) : Contains(file_path, f) THEN FALSE
    ELSE TRUE

is_likely_useful_file(file_path, l) ==
    IF "." \in PartStarts(file_path) THEN FALSE
    ELSE IF Contains(Lower(file_path), s_test) THEN FALSE
    ELSE IF UnderExcludedDir(file_path, l) THEN FALSE
    ELSE IF \E f \in utility_or_config_files(l) : Contains(file_path, f)
        THEN FALSE
    ELSE IF \E f \in workflow_or_docs(l) : Contains(file_path, f) THEN FALSE
    ELSE TRUE

(***************************************************************************)
(* File contents                                                           *)
(***************************************************************************)
Line(i, t) == [ind |-> i, tok |-> t]

\* n copies of the line l
Rep(n, l) == [i \in 1..n |-> l]

\* number of bytes of a token in UTF-8
TokLen(t) ==
    CASE t = "" -> 0
      [] t = "NUL" -> 1             \* the byte 00
      [] t = "\\xff" -> 1           \* a byte that is not valid UTF-8
      [] t = "\\ufffd" -> 3         \* the replacement character
      [] t = "e-acute" -> 2         \* one two-byte character
      [] t = "long" -> 1024         \* one statement of 1024 ASCII characters
      [] t = "long1022" -> 1022     \* one statement of 1022 ASCII characters
      [] t = "num" -> 2
      [] t = "estr" -> 2
      [] t = "wstr" -> 4
      [] t = "str" -> 5
      [] t = "code" -> 5
      [] t = "if" -> 5
      [] t = "def" -> 8
      [] t = "#" -> 9
      [] t = "//" -> 10
      [] t = "text" -> 11
      [] t = "func Test" -> 16
      [] t = "import testing" -> 14
      [] t = "import unittest" -> 15
      [] t = "import pytest" -> 13
      [] t = "from unittest" -> 29
      [] t = "from pytest" -> 24
      [] OTHER -> 39

LineBytes(l) == 4 * l.ind + TokLen(l.tok) + 1

RECURSIVE ByteLen(_)
ByteLen(content) ==
    IF content = <<>> THEN 0
    ELSE LineBytes(Head(content)) + ByteLen(Tail(content))

SampleSize == 1024

\* bytes[:SampleSize]: the lines that begin inside the sample, each with the
\* number of bytes of its token that the sample holds
Sample(content) ==
    LET start(i) == ByteLen(SubSeq(content, 1, i - 1))
        inside == {i \in 1..Len(content) : start(i) < SampleSize}
    IN  [i \in inside |->
            [tok |-> content[i].tok,
             cut |-> LET room == SampleSize - (start(i) + 4 * content[i].ind)
                         n == TokLen(content[i].tok)
                     IN  IF room < 0 THEN 0 ELSE IF room < n THEN room ELSE n]]

\* content_sample.decode('utf-8') raises UnicodeDecodeError
DecodeFails(content_sample) ==
    \E i \in DOMAIN content_sample :
        \/ content_sample[i].tok = "\\xff" /\ content_sample[i].cut >= 1
        \/ content_sample[i].tok = "e-acute" /\ content_sample[i].cut = 1

is_binary_file(content_sample) ==
    IF DecodeFails(content_sample) THEN TRUE
    ELSE \E i \in DOMAIN content_sample :
            content_sample[i].tok = "NUL" /\ content_sample[i].cut >= 1

\* bytes.decode('utf-8', errors='replace')
DecodeReplace(content) ==
    [i \in 1..Len(content) |->
        IF content[i].tok = "\\xff"
           THEN Line(content[i].ind, "\\ufffd") ELSE content[i]]

test_indicators(l) ==
    IF l = "python"
       THEN {"import unittest", "import pytest", "from unittest", "from pytest"}
    ELSE IF l = "go" THEN {"import testing", "func Test"}
    ELSE {}

\* a line token holds an indicator exactly when it is that indicator
is_test_file(file_content, l) ==
    \E i \in 1..Len(file_content) : file_content[i].tok \in test_indicators(l)

min_line_count == 10

\* line.strip() is empty, or starts with '#' or '//'
NotSubstantive(l) == l.tok \in {"", "#", "//"}

has_sufficient_content(file_content) ==
    Cardinality({i \in 1..Len(file_content) :
                    ~NotSubstantive(file_content[i])}) >= min_line_count

(***************************************************************************)
(* remove_comments_and_docstrings: ast.parse, the ast.walk pass, ast.unparse *)
(***************************************************************************)
\* statements with a body
Compound == {"def", "if"}
\* expression statements whose value is a constant
ExprConstant == {"str", "estr", "wstr", "num"}
\* other statements of one line
Simple == {"code", "long", "long1022", "e-acute", "import testing",
           "import unittest", "import pytest", "from unittest", "from pytest"}

Node(kind, b) == [k |-> kind, body |-> b]

ParseError == [ok |-> FALSE, stmts |-> <<>>, next |-> 0]

\* the tokenizer drops blank lines and comment lines, whatever their indent
CodeLines(source) == SelectSeq(source, LAMBDA l : l.tok \notin {"", "#"})

\* the first line from i on that does not continue a run of one-line
\* statements indented by ind
RunEnd(ls, i, ind) ==
    LET stop == {k \in i..Len(ls) :
                    ls[k].ind # ind \/ ls[k].tok \notin ExprConstant \cup Simple}
    IN  IF stop = {} THEN Len(ls) + 1
        ELSE CHOOSE k \in stop : \A m \in stop : k <= m

\* the statements of the block indented by ind that starts at line i; a run
\* of one-line statements is taken in one step
RECURSIVE ParseBlock(_, _, _, _)
ParseBlock(ls, i, ind, acc) ==
    IF i > Len(ls) \/ ls[i].ind < ind
       THEN [ok |-> TRUE, stmts |-> acc, next |-> i]
    ELSE IF ls[i].ind > ind THEN ParseError          \* unexpected indent
    ELSE IF ls[i].tok \in Compound
       THEN IF i + 1 > Len(ls) \/ ls[i+1].ind <= ind
               THEN ParseError                        \* expected an indented block
            ELSE LET b == ParseBlock(ls, i + 1, ls[i+1].ind, <<>>)
                 IN  IF ~b.ok THEN ParseError
                     ELSE ParseBlock(ls, b.next, ind,
                                     Append(acc, Node(ls[i].tok, b.stmts)))
    ELSE IF ls[i].tok \in ExprConstant \cup Simple
       THEN LET j == RunEnd(ls, i, ind)
            IN  ParseBlock(ls, j, ind,
                           acc \o [k \in 1..(j - i) |->
                                      Node(ls[i + k - 1].tok, <<>>)])
    ELSE ParseError                                   \* invalid syntax

\* ast.parse(source)
ast_parse(source) == ParseBlock(CodeLines(source), 1, 0, <<>>)

\* ast.get_docstring(node) is a non-empty string
get_docstring(body) == body # <<>> /\ body[1].k = "str"

\* the loop over ast.walk(tree)
RECURSIVE StripBody(_)
StripBody(stmts) ==
    [i \in 1..Len(stmts) |->
        LET n == stmts[i]
        IN  IF n.k = "def"
               THEN Node("def", StripBody(IF get_docstring(n.body)
                                             THEN Tail(n.body) ELSE n.body))
            ELSE IF n.k \in ExprConstant THEN Node("estr", <<>>)
            ELSE Node(n.k, StripBody(n.body))]

\* the number of one-line statements that stmts starts with
SimpleRun(stmts) ==
    LET stop == {k \in 1..Len(stmts) : stmts[k].k \in Compound}
    IN  IF stop = {} THEN Len(stmts)
        ELSE (CHOOSE k \in stop : \A m \in stop : k <= m) - 1

\* ast.unparse: one statement per line, bodies one level deeper, an empty
\* line before a definition that is not the first line of the output; a run
\* of one-line statements is written in one step
RECURSIVE Unparse(_, _, _)
Unparse(stmts, level, acc) ==
    IF stmts = <<>> THEN acc
    ELSE LET n == Head(stmts)
         IN  IF n.k \in Compound
                THEN LET a1 == IF n.k = "def" /\ acc # <<>>
                                  THEN Append(acc, Line(0, "")) ELSE acc
                         a2 == Append(a1, Line(level, n.k))
                     IN  Unparse(Tail(stmts), level,
                                 Unparse(n.body, level + 1, a2))
             ELSE LET j == SimpleRun(stmts)
                  IN  Unparse(SubSeq(stmts, j + 1, Len(stmts)), level,
                              acc \o [k \in 1..j |-> Line(level, stmts[k].k)])

ast_unparse(stmts) == Unparse(stmts, 0, <<>>)

\* [ok |-> FALSE] when ast.parse raises
remove_comments_and_docstrings(source) ==
    LET tree == ast_parse(source)
    IN  IF ~tree.ok THEN [ok |-> FALSE, text |-> source]
        ELSE [ok |-> TRUE, text |-> ast_unparse(StripBody(tree.stmts))]

(***************************************************************************)
(* The archives drawn by Init                                              *)
(***************************************************************************)
p_README_md == s_README_md
p_README == s_README
p_calc == <<"s","r","c","/","c","a","l","c",".","p","y">>
p_test_calc == <<"t","e","s","t","s","/","t","e","s","t","_","c","a","l","c",".","p","y">>
p_demo == <<"e","x","a","m","p","l","e","s","/","d","e","m","o",".","p","y">>
p_logo == <<"l","o","g","o",".","p","n","g">>
p_vendor_go == <<"v","e","n","d","o","r","/","l","i","b",".","g","o">>
p_ex_readme == <<"e","x","a","m","p","l","e","s","/","R","E","A","D","M","E",".","m","d">>
p_src_dir == <<"s","r","c","/">>
p_late == <<"s","r","c","/","l","a","t","e",".","p","y">>
p_hidden == <<".","h","i","d","d","e","n","/","c","o","n","f",".","p","y">>

\* a definition with a docstring and 10 statements
c_calc == <<Line(0, "def"), Line(1, "str")>> \o Rep(10, Line(1, "code"))
\* a definition with a docstring and 48 statements: 50 substantive lines
c_calc50 == <<Line(0, "def"), Line(1, "str")>> \o Rep(48, Line(1, "code"))
c_test_calc == <<Line(0, "import unittest")>> \o Rep(11, Line(0, "code"))
c_demo == Rep(10, Line(0, "code"))
c_go == <<Line(0, "//")>> \o Rep(10, Line(0, "code"))
c_text == Rep(12, Line(0, "text"))
c_nul == <<Line(0, "text"), Line(0, "NUL")>>
\* python with a docstring and a last line that is not python
c_broken ==
    <<Line(0, "def"), Line(1, "str")>> \o Rep(10, Line(1, "code"))
        \o <<Line(0, "text")>>
\* valid UTF-8: a line of 1022 + 1 bytes of ASCII, then a two-byte character
\* whose second byte is byte 1025 of the file, then ten lines of python
c_straddle ==
    <<Line(0, "long1022"), Line(0, "e-acute")>> \o Rep(10, Line(0, "code"))

Entry(p, c, r) == [path |-> p, content |-> c, readable |-> r]

Entries ==
    { Entry(p_README_md, c_text, TRUE),
      Entry(p_README_md, <<>>, TRUE),
      Entry(p_README_md, c_nul, TRUE),
      Entry(p_README, c_text, TRUE),
      Entry(p_README, c_text, FALSE),
      Entry(p_calc, c_calc, TRUE),
      Entry(p_test_calc, c_test_calc, TRUE),
      Entry(p_demo, c_demo, TRUE),
      Entry(p_logo, c_nul, TRUE),
      Entry(p_vendor_go, c_go, TRUE),
      Entry(p_ex_readme, c_text, TRUE),
      Entry(p_src_dir, <<>>, TRUE) }

\* the archive of the scenario: calc.py, its test and a README.md
ScenarioArchive ==
    <<Entry(p_calc, c_calc50, TRUE), Entry(p_test_calc, c_test_calc, TRUE),
      Entry(p_README_md, c_text, TRUE)>>

\* a file whose two-byte character straddles the end of the sample
UnicodeArchive == <<Entry(p_calc, c_straddle, TRUE)>>

\* a python file that does not parse, before one that does
BrokenArchive == <<Entry(p_late, c_calc, TRUE), Entry(p_calc, c_broken, TRUE)>>

\* the python file that does not parse, listed twice
BrokenTwice == <<Entry(p_calc, c_broken, TRUE), Entry(p_calc, c_broken, TRUE)>>

\* a python file under a directory whose name starts with a dot
HiddenArchive == <<Entry(p_hidden, c_demo, TRUE)>>

Listings ==
    UNION {[1..n -> Entries] : n \in 0..MaxEntries}
        \cup {ScenarioArchive, UnicodeArchive, BrokenArchive, BrokenTwice,
              HiddenArchive}

Languages == {"python", "go", "md"}

(***************************************************************************)
(* zipfile                                                                 *)
(***************************************************************************)
\* zip_file.namelist(): the names in the order of the archive
namelist(zip) == [i \in 1..Len(zip) |-> zip[i].path]

\* the entry zip_file.read(name) reads: the last one of that name
getinfo(zip, name) ==
    zip[CHOOSE i \in 1..Len(zip) :
            /\ zip[i].path = name
            /\ \A j \in (i+1)..Len(zip) : zip[j].path # name]

\* zip_file.read(name) raises (bad CRC, encrypted or unsupported entry)
ReadRaises(zip, name) == ~getinfo(zip, name).readable

zip_read(zip, name) == getinfo(zip, name).content

(***************************************************************************)
(* find_readme_content                                                     *)
(***************************************************************************)
Placeholder == <<Line(0, "No README file found in the repository.")>>

\* index of the first name the loop stops at, 0 when it runs to the end
FirstMatch(zip, suffix, whole) ==
    LET hits == {i \in 1..Len(zip) :
                    EndsWith(zip[i].path, suffix) \/ zip[i].path = whole}
    IN  IF hits = {} THEN 0
        ELSE CHOOSE i \in hits : \A j \in hits : i <= j

find_readme_content(zip) ==
    LET i1 == FirstMatch(zip, s_slash \o s_README_md, s_README_md)
        raise1 == i1 # 0 /\ ReadRaises(zip, zip[i1].path)
        content1 == IF i1 # 0 /\ ~raise1
                       THEN DecodeReplace(zip_read(zip, zip[i1].path))
                    ELSE <<>>
        path1 == IF i1 # 0 /\ ~raise1 THEN zip[i1].path ELSE <<>>
        i2 == IF content1 = <<>>
                 THEN FirstMatch(zip, s_slash \o s_README, s_README) ELSE 0
        raise2 == i2 # 0 /\ ReadRaises(zip, zip[i2].path)
        content2 == IF i2 # 0 /\ ~raise2
                       THEN DecodeReplace(zip_read(zip, zip[i2].path))
                    ELSE content1
        path2 == IF i2 # 0 /\ ~raise2 THEN zip[i2].path ELSE path1
    IN  [raised |-> raise1 \/ raise2,
         path |-> path2,
         content |-> IF content2 = <<>> THEN Placeholder ELSE content2]

(***************************************************************************)
(* The artifact: the pieces written to outfile, in order                   *)
(***************************************************************************)
Chunk(kind, i, p, t, r, m) ==
    [k |-> kind, idx |-> i, path |-> p, text |-> t, rows |-> r, mark |-> m]

Piece(kind) == Chunk(kind, None, <<>>, <<>>, <<>>, "")

\* the four writes of one document of structured mode; the third wraps the
\* body in <document_content>
DocumentOf(i, p, body) ==
    <<Chunk("doc_open", i, <<>>, <<>>, <<>>, ""),
      Chunk("source", None, p, <<>>, <<>>, ""),
      [body EXCEPT !.mark = "document_content"],
      Piece("doc_close")>>

\* the three writes of one block of plain mode
BlockOf(m, p, body) ==
    <<Chunk("header", None, p, <<>>, <<>>, m), body, Piece("sep")>>

TextOf(t) == Chunk("text", None, <<>>, t, <<>>, "")

Marker(l) == IF l = "go" THEN "// " ELSE "# "

(***************************************************************************)
(* format_manifest_line                                                    *)
(***************************************************************************)
max_path_len == 50

NumParts(s) == Cardinality({i \in 1..Len(s) : s[i] = "/"}) + 1

\* "/".join(parts[1:])
DropFirstPart(s) ==
    LET i == CHOOSE j \in 1..Len(s) :
                 s[j] = "/" /\ \A h \in 1..(j-1) : s[h] # "/"
    IN  SubSeq(s, i + 1, Len(s))

RECURSIVE Shorten(_, _)
Shorten(parts, display_path) ==
    IF Len(display_path) > max_path_len /\ NumParts(parts) > 2
       THEN Shorten(DropFirstPart(parts), s_ellipsis \o DropFirstPart(parts))
    ELSE display_path

format_manifest_line(file_path, description, doc_index) ==
    [disp |-> Shorten(file_path, file_path), desc |-> description,
     link |-> doc_index, path |-> file_path]

ManifestEntry(p, d, i) == [path |-> p, desc |-> d, idx |-> i]

manifest_content(entries) ==
    Chunk("manifest", None, <<>>, <<>>,
          [i \in 1..Len(entries) |->
              format_manifest_line(entries[i].path, entries[i].desc,
                                   entries[i].idx)], "")

(***************************************************************************)
(* process_repository_files, run inside the with-block of download_repo    *)
(***************************************************************************)
config == <<lang, keep_comments, claude, include_all, archive>>
resolver == <<host, requested_ref, branch_or_tag, lookup, download_url>>
harness == <<src_text, norm1, norm2>>
classifier == <<rel_path, tops, verdicts>>
dependency == <<nodes, edges, cycles, first_result>>

\* the harnesses of the classifier and of the dependency graph are not in use
NoClassifier == rel_path = <<>> /\ tops = <<>> /\ verdicts = <<>>
NoDependency ==
    nodes = <<>> /\ edges = <<>> /\ cycles = <<>> /\ first_result = <<>>
passes == <<names, pos, manifest_entries, included_files, next_doc_index>>

\* the README document or block
ReadmeWrites(r) ==
    IF claude THEN DocumentOf(0, r.path, TextOf(r.content))
    ELSE BlockOf(Marker(lang), r.path, TextOf(r.content))

\* the manifest written in structured mode only
ManifestWrites_StructuredOnly ==
    IF claude
       THEN DocumentOf(1, s_manifest_txt, manifest_content(manifest_entries))
    ELSE <<>>

\* the manifest document or block
ManifestWrites ==
    IF claude
       THEN DocumentOf(1, s_manifest_txt, manifest_content(manifest_entries))
    ELSE BlockOf("# ", s_manifest_txt, manifest_content(manifest_entries))

\* the content written when every language is normalized
EmittedContent_AnyLanguage(file_path, file_content) ==
    IF ~keep_comments /\ EndsWith(file_path, <<".","p","y">>)
       THEN LET r == remove_comments_and_docstrings(file_content)
            IN  IF r.ok THEN r.text ELSE file_content
    ELSE file_content

\* the content written for an included file
EmittedContent(file_path, file_content) ==
    IF lang = "python" /\ ~keep_comments /\ EndsWith(file_path, <<".","p","y">>)
       THEN LET r == remove_comments_and_docstrings(file_content)
            IN  IF r.ok THEN r.text ELSE file_content
    ELSE file_content

\* the index looked up, shifted by one
LookupIndex_OffByOne(entries, file_path) ==
    LET hits == {i \in 1..Len(entries) : entries[i].path = file_path}
    IN  entries[CHOOSE i \in hits : \A j \in hits : i <= j].idx + 1

\* next(entry[2] for entry in manifest_entries if entry[0] == file_path)
LookupIndex(entries, file_path) ==
    LET hits == {i \in 1..Len(entries) : entries[i].path = file_path}
    IN  entries[CHOOSE i \in hits : \A j \in hits : i <= j].idx

\* the document or block of the included file at position i
FileWrites(i) ==
    LET file_path == included_files[i].path
        file_content == EmittedContent(file_path, included_files[i].content)
        doc_index == LookupIndex(manifest_entries, file_path)
    IN  IF claude THEN DocumentOf(doc_index, file_path, TextOf(file_content))
        ELSE BlockOf(Marker(lang), file_path, TextOf(file_content))

\* what the step at the current position writes when nothing fails
PendingWrites ==
    CASE pc = "preface" ->
            IF claude THEN <<Piece("preface"), Piece("documents_open")>>
            ELSE <<>>
      [] pc = "readme" ->
            LET r == find_readme_content(archive)
            IN  IF r.raised THEN <<>> ELSE ReadmeWrites(r)
      [] pc = "first_pass" /\ pos > Len(names) -> ManifestWrites
      [] pc = "documents" /\ pos <= Len(included_files) -> FileWrites(pos)
      [] pc = "documents" /\ pos > Len(included_files) ->
            IF claude THEN <<Piece("documents_close")>> ELSE <<>>
      [] OTHER -> <<>>

\* open(output_file, "w")
OpenOutput ==
    /\ pc = "open"
    /\ pc' = "preface"
    /\ file_exists' = TRUE
    /\ outfile' = <<>>
    /\ UNCHANGED <<config, readme, passes, exit_code, resolver, harness,
                   classifier, dependency>>

\* open raises: the except clause logs and calls sys.exit(1)
OpenFails ==
    /\ pc = "open"
    /\ pc' = "exit"
    /\ exit_code' = 1
    /\ UNCHANGED <<config, file_exists, outfile, readme, passes, resolver,
                   harness,
                   classifier, dependency>>

\* lines 208-210
WritePreface ==
    /\ pc = "preface"
    /\ outfile' = outfile \o PendingWrites
    /\ pc' = "readme"
    /\ UNCHANGED <<config, file_exists, readme, passes, exit_code, resolver,
                   harness,
                   classifier, dependency>>

\* lines 212-229: the README, then the set-up of the first pass
WriteReadme ==
    /\ pc = "readme"
    /\ LET r == find_readme_content(archive)
       IN  /\ ~r.raised
           /\ readme' = [path |-> r.path, content |-> r.content]
    /\ outfile' = outfile \o PendingWrites
    /\ manifest_entries' = <<>>
    /\ included_files' = <<>>
    /\ next_doc_index' = 2
    /\ names' = Sorted(namelist(archive))
    /\ pos' = 1
    /\ pc' = "first_pass"
    /\ UNCHANGED <<config, file_exists, exit_code, resolver, harness,
                   classifier, dependency>>

\* zip_file.read raises inside find_readme_content: nothing there catches
\* it, the except clause of download_repo logs and calls sys.exit(1)
ReadmeRaises ==
    /\ pc = "readme"
    /\ find_readme_content(archive).raised
    /\ pc' = "exit"
    /\ exit_code' = 1
    /\ UNCHANGED <<config, file_exists, outfile, readme, passes, resolver,
                   harness,
                   classifier, dependency>>

\* the filters alone, without the include_all override
should_include_NoOverride(file_path, file_content) ==
    /\ is_file_type(file_path, lang)
    /\ is_likely_useful_file(file_path, lang)
    /\ ~is_test_file(file_content, lang)
    /\ has_sufficient_content(file_content)

\* line 244: should_include = include_all or (the four filters)
should_include(file_path, file_content) ==
    \/ include_all
    \/ /\ is_file_type(file_path, lang)
       /\ is_likely_useful_file(file_path, lang)
       /\ ~is_test_file(file_content, lang)
       /\ has_sufficient_content(file_content)

\* lines 229-262: one iteration of the first pass
AnalyzeEntry ==
    /\ pc = "first_pass"
    /\ pos <= Len(names)
    /\ LET file_path == names[pos]
           content_sample == Sample(zip_read(archive, file_path))
           is_binary == is_binary_file(content_sample)
           description == IF is_binary THEN "Binary file" ELSE "Source file"
           file_content == DecodeReplace(zip_read(archive, file_path))
       IN  IF EndsWith(file_path, s_slash)
              THEN UNCHANGED <<manifest_entries, included_files,
                               next_doc_index>>
           ELSE IF ReadRaises(archive, file_path)
              THEN /\ manifest_entries' =
                         Append(manifest_entries,
                                ManifestEntry(file_path,
                                              "Error processing file", None))
                   /\ UNCHANGED <<included_files, next_doc_index>>
           ELSE IF is_binary
              THEN /\ manifest_entries' =
                         Append(manifest_entries,
                                ManifestEntry(file_path, description, None))
                   /\ UNCHANGED <<included_files, next_doc_index>>
           ELSE IF should_include(file_path, file_content)
              THEN /\ manifest_entries' =
                         Append(manifest_entries,
                                ManifestEntry(file_path, description,
                                              next_doc_index))
                   /\ included_files' =
                         Append(included_files,
                                [path |-> file_path, content |-> file_content])
                   /\ next_doc_index' = next_doc_index + 1
           ELSE /\ manifest_entries' =
                      Append(manifest_entries,
                             ManifestEntry(file_path, "Excluded file", None))
                /\ UNCHANGED <<included_files, next_doc_index>>
    /\ pos' = pos + 1
    /\ UNCHANGED <<pc, config, file_exists, outfile, readme, names, exit_code,
                   resolver, harness,
                   classifier, dependency>>

\* lines 264-282
WriteManifest ==
    /\ pc = "first_pass"
    /\ pos > Len(names)
    /\ outfile' = outfile \o PendingWrites
    /\ pc' = "documents"
    /\ pos' = 1
    /\ UNCHANGED <<config, file_exists, readme, names, manifest_entries,
                   included_files, next_doc_index, exit_code, resolver,
                   harness,
                   classifier, dependency>>

\* lines 285-302: one iteration of the writing pass
WriteDocument ==
    /\ pc = "documents"
    /\ pos <= Len(included_files)
    /\ outfile' = outfile \o PendingWrites
    /\ pos' = pos + 1
    /\ UNCHANGED <<pc, config, file_exists, readme, names, manifest_entries,
                   included_files, next_doc_index, exit_code, resolver,
                   harness,
                   classifier, dependency>>

\* lines 304-305, the end of the with-block and of download_repo
WriteClose ==
    /\ pc = "documents"
    /\ pos > Len(included_files)
    /\ outfile' = outfile \o PendingWrites
    /\ pc' = "exit"
    /\ exit_code' = 0
    /\ UNCHANGED <<config, file_exists, readme, passes, resolver, harness,
                   classifier, dependency>>

\* outfile.write raises after some of the step's writes: the except clause
\* of download_repo logs and calls sys.exit(1); the file stays as it is
WriteFails ==
    /\ pc \in {"preface", "readme", "first_pass", "documents"}
    /\ \E n \in 0..(Len(PendingWrites) - 1) :
          outfile' = outfile \o SubSeq(PendingWrites, 1, n)
    /\ pc' = "exit"
    /\ exit_code' = 1
    /\ UNCHANGED <<config, file_exists, readme, passes, resolver, harness,
                   classifier, dependency>>

Init ==
    /\ pc = "open"
    /\ lang \in Languages
    /\ keep_comments \in BOOLEAN
    /\ claude \in BOOLEAN
    /\ include_all \in BOOLEAN
    /\ archive \in Listings
    /\ file_exists = FALSE
    /\ outfile = <<>>
    /\ readme = [path |-> <<>>, content |-> <<>>]
    /\ names = <<>>
    /\ pos = 0
    /\ manifest_entries = <<>>
    /\ included_files = <<>>
    /\ next_doc_index = 0
    /\ exit_code = NoExit
    /\ host = "github.com"
    /\ requested_ref = "main"
    /\ branch_or_tag = "main"
    /\ lookup = "none"
    /\ download_url = [host |-> "github.com", ref |-> "main"]
    /\ src_text = <<>>
    /\ norm1 = [ok |-> TRUE, text |-> <<>>]
    /\ norm2 = [ok |-> TRUE, text |-> <<>>]
    /\ NoClassifier
    /\ NoDependency

Next ==
    \/ OpenOutput
    \/ OpenFails
    \/ WritePreface
    \/ WriteReadme
    \/ ReadmeRaises
    \/ AnalyzeEntry
    \/ WriteManifest
    \/ WriteDocument
    \/ WriteClose
    \/ WriteFails

Spec == Init /\ [][Next]_vars

(***************************************************************************)
(* The reference resolver: download_repo up to the opened archive          *)
(***************************************************************************)
MaxBranches == 2    \* longest branch list a response carries

Hosts == {"github.com", "gitlab.com", "example.org"}
Refs == {"main", "master", "dev"}

\* an item of the JSON list: an object with a name, an object without the
\* key 'name', or a value that is no object
Items == {"main", "master", "dev", "no_name", "not_object"}

\* what requests.get(branches_url) does: it raises, or it returns a status
\* and a body that is no JSON, a JSON value that is no list, or a list
Response(k, st, b) == [kind |-> k, status |-> st, body |-> b]

Responses ==
    {Response("raises", 0, <<>>)}
    \cup {Response("not_json", st, <<>>) : st \in {200, 404, 500}}
    \cup {Response("object", 200, <<>>)}
    \cup {Response("list", 200, b) :
             b \in UNION {[1..n -> Items] : n \in 0..MaxBranches}}

Returned(ref) == [raised |-> FALSE, ref |-> ref]
Raised == [raised |-> TRUE, ref |-> ""]

\* the list comprehension [branch['name'] for branch in branches]: the first
\* item that cannot be indexed decides between KeyError and TypeError
FirstBad(branches) ==
    LET bad == {i \in 1..Len(branches) :
                   branches[i] \in {"no_name", "not_object"}}
    IN  IF bad = {} THEN "none"
        ELSE branches[CHOOSE i \in bad : \A j \in bad : i <= j]

check_default_branches(repo_host, response) ==
    IF repo_host \notin {"github.com", "gitlab.com"} THEN Raised  \* ValueError
    ELSE IF response.kind = "raises" THEN Raised
    ELSE IF response.status # 200 THEN Returned("main")
    ELSE IF response.kind = "not_json" THEN Returned("main")       \* ValueError
    ELSE IF response.kind # "list" THEN Returned("main")
    ELSE IF FirstBad(response.body) = "no_name" THEN Returned("main") \* KeyError
    ELSE IF FirstBad(response.body) = "not_object" THEN Raised     \* TypeError
    ELSE IF \E i \in 1..Len(response.body) : response.body[i] = "main"
        THEN Returned("main")
    ELSE IF \E i \in 1..Len(response.body) : response.body[i] = "master"
        THEN Returned("master")
    ELSE Returned("main")


\* the lookup made for every ref
ResolveRef_AlwaysLooksUp ==
    /\ pc = "resolve"
    /\ \E response \in Responses :
          LET r == check_default_branches(host, response)
          IN  /\ lookup' = [attempted |-> TRUE, response |-> response,
                            raised |-> r.raised]
              /\ branch_or_tag' = IF r.raised THEN branch_or_tag ELSE r.ref
    /\ pc' = "construct"
    /\ UNCHANGED <<config, file_exists, outfile, readme, passes, exit_code,
                   host, requested_ref, download_url, harness,
                   classifier, dependency>>

\* lines 321-327
ResolveRef ==
    /\ pc = "resolve"
    /\ IF branch_or_tag \in {"main", "master"}
          THEN \E response \in Responses :
                  LET r == check_default_branches(host, response)
                  IN  /\ lookup' = [attempted |-> TRUE, response |-> response,
                                    raised |-> r.raised]
                      /\ branch_or_tag' = IF r.raised THEN branch_or_tag
                                          ELSE r.ref
       ELSE UNCHANGED <<lookup, branch_or_tag>>
    /\ pc' = "construct"
    /\ UNCHANGED <<config, file_exists, outfile, readme, passes, exit_code,
                   host, requested_ref, download_url, harness,
                   classifier, dependency>>

\* line 330
ConstructUrl ==
    /\ pc = "construct"
    /\ host \in {"github.com", "gitlab.com"}
    /\ download_url' = [host |-> host, ref |-> branch_or_tag]
    /\ pc' = "fetch"
    /\ UNCHANGED <<config, file_exists, outfile, readme, passes, exit_code,
                   host, requested_ref, branch_or_tag, lookup, harness,
                   classifier, dependency>>

\* construct_download_url raises ValueError, which nothing catches
ConstructUrlRaises ==
    /\ pc = "construct"
    /\ host \notin {"github.com", "gitlab.com"}
    /\ pc' = "exit"
    /\ exit_code' = 1
    /\ UNCHANGED <<config, file_exists, outfile, readme, passes, resolver,
                   harness,
                   classifier, dependency>>

\* lines 342-354: the download succeeds and the body is a zip archive
FetchArchive ==
    /\ pc = "fetch"
    /\ archive' \in {<<>>, ScenarioArchive}
    /\ pc' = "open"
    /\ UNCHANGED <<lang, keep_comments, claude, include_all, file_exists,
                   outfile, readme, passes, exit_code, resolver, harness,
                   classifier, dependency>>

\* the request raises, the status is an error, or the body is no zip archive
FetchFails ==
    /\ pc = "fetch"
    /\ pc' = "exit"
    /\ exit_code' = 1
    /\ UNCHANGED <<config, file_exists, outfile, readme, passes, resolver,
                   harness,
                   classifier, dependency>>

InitResolve ==
    /\ pc = "resolve"
    /\ lang = "python"
    /\ keep_comments = FALSE
    /\ claude \in BOOLEAN
    /\ include_all = FALSE
    /\ archive = <<>>
    /\ file_exists = FALSE
    /\ outfile = <<>>
    /\ readme = [path |-> <<>>, content |-> <<>>]
    /\ names = <<>>
    /\ pos = 0
    /\ manifest_entries = <<>>
    /\ included_files = <<>>
    /\ next_doc_index = 0
    /\ exit_code = NoExit
    /\ host \in Hosts
    /\ requested_ref \in Refs
    /\ branch_or_tag = requested_ref
    /\ lookup = [attempted |-> FALSE, response |-> Response("none", 0, <<>>),
                 raised |-> FALSE]
    /\ download_url = [host |-> "", ref |-> ""]
    /\ src_text = <<>>
    /\ norm1 = [ok |-> TRUE, text |-> <<>>]
    /\ norm2 = [ok |-> TRUE, text |-> <<>>]
    /\ NoClassifier
    /\ NoDependency

NextResolve ==
    \/ ResolveRef
    \/ ConstructUrl
    \/ ConstructUrlRaises
    \/ FetchArchive
    \/ FetchFails

SpecResolve == InitResolve /\ [][NextResolve]_vars

(***************************************************************************)
(* The normalizer applied to bounded source texts, once and twice          *)
(***************************************************************************)
NormTokens == {"def", "if", "str", "num", "code"}

Sources ==
    UNION {[1..n -> {Line(i, t) : i \in 0..MaxInd, t \in NormTokens}] :
              n \in 0..MaxLines}

\* normalize(x)
Normalize ==
    /\ pc = "source"
    /\ norm1' = remove_comments_and_docstrings(src_text)
    /\ pc' = "normalized"
    /\ UNCHANGED <<config, file_exists, outfile, readme, passes, exit_code,
                   resolver, src_text, norm2,
                   classifier, dependency>>

\* normalize(normalize(x)), when normalize(x) did not raise
NormalizeAgain ==
    /\ pc = "normalized"
    /\ norm1.ok
    /\ norm2' = remove_comments_and_docstrings(norm1.text)
    /\ pc' = "renormalized"
    /\ UNCHANGED <<config, file_exists, outfile, readme, passes, exit_code,
                   resolver, src_text, norm1,
                   classifier, dependency>>

InitNorm ==
    /\ pc = "source"
    /\ lang = "python"
    /\ keep_comments = FALSE
    /\ claude = FALSE
    /\ include_all = FALSE
    /\ archive = <<>>
    /\ file_exists = FALSE
    /\ outfile = <<>>
    /\ readme = [path |-> <<>>, content |-> <<>>]
    /\ names = <<>>
    /\ pos = 0
    /\ manifest_entries = <<>>
    /\ included_files = <<>>
    /\ next_doc_index = 0
    /\ exit_code = NoExit
    /\ host = "github.com"
    /\ requested_ref = "main"
    /\ branch_or_tag = "main"
    /\ lookup = "none"
    /\ download_url = [host |-> "github.com", ref |-> "main"]
    /\ src_text \in Sources
    /\ norm1 = [ok |-> TRUE, text |-> <<>>]
    /\ norm2 = [ok |-> TRUE, text |-> <<>>]
    /\ NoClassifier
    /\ NoDependency

NextNorm == Normalize \/ NormalizeAgain

SpecNorm == InitNorm /\ [][NextNorm]_vars

(***************************************************************************)
(* The classifier applied to one file under two top-level folder names     *)
(***************************************************************************)
p_gitignore == <<".","g","i","t","i","g","n","o","r","e">>
p_env_example == <<".","e","n","v",".","e","x","a","m","p","l","e">>
p_setup == <<"s","e","t","u","p",".","p","y">>

\* <repo>-<ref>/ for the repositories repo, pytest and .vim
Tops ==
    { <<"r","e","p","o","-","m","a","i","n","/">>,
      <<"p","y","t","e","s","t","-","m","a","i","n","/">> ,
      <<".","v","i","m","-","m","a","i","n","/">> }

RelPaths ==
    {p_calc, p_test_calc, p_demo, p_hidden, p_README_md, p_vendor_go,
     p_gitignore, p_env_example, p_setup}

\* the return statement of is_likely_useful_file that ends the call
RejectedBy(file_path, l) ==
    IF "." \in PartStarts(file_path) THEN "dot segment"
    ELSE IF Contains(Lower(file_path), s_test) THEN "test substring"
    ELSE IF UnderExcludedDir(file_path, l) THEN "excluded directory"
    ELSE IF \E f \in utility_or_config_files(l) : Contains(file_path, f)
        THEN "utility or config file"
    ELSE IF \E f \in workflow_or_docs(l) : Contains(file_path, f)
        THEN "workflow or docs"
    ELSE "none"

\* the path tests of line 245 and 246
Verdict(file_path) ==
    [file_type |-> is_file_type(file_path, lang),
     useful |-> is_likely_useful_file(file_path, lang),
     rule |-> RejectedBy(file_path, lang)]

\* the file as the first archive names it
ClassifyFirst ==
    /\ pc = "classify"
    /\ verdicts' = <<Verdict(tops[1] \o rel_path)>>
    /\ pc' = "classified_first"
    /\ UNCHANGED <<config, file_exists, outfile, readme, passes, exit_code,
                   resolver, harness, rel_path, tops, dependency>>

\* the file as the second archive names it
ClassifySecond ==
    /\ pc = "classified_first"
    /\ verdicts' = Append(verdicts, Verdict(tops[2] \o rel_path))
    /\ pc' = "classified"
    /\ UNCHANGED <<config, file_exists, outfile, readme, passes, exit_code,
                   resolver, harness, rel_path, tops, dependency>>

InitClassify ==
    /\ pc = "classify"
    /\ lang \in Languages
    /\ keep_comments = FALSE
    /\ claude = FALSE
    /\ include_all = FALSE
    /\ archive = <<>>
    /\ file_exists = FALSE
    /\ outfile = <<>>
    /\ readme = [path |-> <<>>, content |-> <<>>]
    /\ names = <<>>
    /\ pos = 0
    /\ manifest_entries = <<>>
    /\ included_files = <<>>
    /\ next_doc_index = 0
    /\ exit_code = NoExit
    /\ host = "github.com"
    /\ requested_ref = "main"
    /\ branch_or_tag = "main"
    /\ lookup = "none"
    /\ download_url = [host |-> "github.com", ref |-> "main"]
    /\ src_text = <<>>
    /\ norm1 = [ok |-> TRUE, text |-> <<>>]
    /\ norm2 = [ok |-> TRUE, text |-> <<>>]
    /\ rel_path \in RelPaths
    /\ tops \in Tops \X Tops
    /\ verdicts = <<>>
    /\ NoDependency

NextClassify == ClassifyFirst \/ ClassifySecond

SpecClassify == InitClassify /\ [][NextClassify]_vars

(***************************************************************************)
(* llm_analyzer.py: DependencyGraph.add_dependency and detect_cycles       *)
(***************************************************************************)
MaxDeps == 3          \* most calls of add_dependency in one run
RecursionLimit == 3   \* nested calls of dfs the interpreter allows, scaled
                      \* to the graphs drawn (CPython: 1000 frames by default)

GraphNodes == {"a", "b", "c", "d"}

\* the orders in which a set can iterate
Orders(S) ==
    {s \in [1..Cardinality(S) -> S] :
        \A i, j \in 1..Cardinality(S) : s[i] = s[j] => i = j}

HasKey(ns, n) == \E i \in 1..Len(ns) : ns[i].name = n
KeyIndex(ns, n) == CHOOSE i \in 1..Len(ns) : ns[i].name = n

\* self.nodes.get(node, []), in iteration order
Targets(ns, n) == IF HasKey(ns, n) THEN ns[KeyIndex(ns, n)].targets ELSE <<>>

Range(s) == {s[i] : i \in 1..Len(s)}

\* add_dependency(source, target, dep_type): the set of the source gets the
\* target; a set that grows may iterate in any order afterwards
AddDependency ==
    /\ pc = "build"
    /\ Len(edges) < MaxDeps
    /\ \E source, target \in GraphNodes :
          /\ \E order \in Orders(Range(Targets(nodes, source)) \cup {target}) :
                /\ target \in Range(Targets(nodes, source)) =>
                      order = Targets(nodes, source)
                /\ nodes' =
                      IF HasKey(nodes, source)
                         THEN [nodes EXCEPT
                                 ![KeyIndex(nodes, source)].targets = order]
                      ELSE Append(nodes, [name |-> source, targets |-> order])
          /\ edges' = Append(edges, [source |-> source, target |-> target])
    /\ UNCHANGED <<pc, config, file_exists, outfile, readme, passes, exit_code,
                   resolver, harness, classifier, cycles, first_result>>

\* the locals visited and path, self.cycles, the depth of the call stack and
\* whether RecursionError was raised
DfsState(v, p, c, d, r) ==
    [visited |-> v, path |-> p, cycles |-> c, depth |-> d, raised |-> r]

RECURSIVE dfs(_, _, _)
RECURSIVE VisitAll(_, _, _, _)

\* for neighbor in self.nodes.get(node, []): dfs(neighbor)
VisitAll(ns, targets, i, st) ==
    IF st.raised \/ i > Len(targets) THEN st
    ELSE VisitAll(ns, targets, i + 1, dfs(ns, targets[i], st))

\* lines 121-133; a call nested deeper than RecursionLimit raises
dfs(ns, node, st) ==
    IF st.raised THEN st
    ELSE IF st.depth + 1 > RecursionLimit THEN [st EXCEPT !.raised = TRUE]
    ELSE IF node \in Range(st.path)
       THEN [st EXCEPT !.cycles =
                Append(@, SubSeq(st.path,
                                 CHOOSE i \in 1..Len(st.path) : st.path[i] = node,
                                 Len(st.path)))]
    ELSE IF node \in st.visited THEN st
    ELSE LET entered == DfsState(st.visited \cup {node}, Append(st.path, node),
                                 st.cycles, st.depth + 1, FALSE)
             left == VisitAll(ns, Targets(ns, node), 1, entered)
         IN  IF left.raised THEN left
             ELSE [left EXCEPT !.path = SubSeq(@, 1, Len(@) - 1),
                               !.depth = @ - 1]

\* for node in self.nodes: if node not in visited: dfs(node)
RECURSIVE VisitRoots(_, _, _)
VisitRoots(ns, i, st) ==
    IF st.raised \/ i > Len(ns) THEN st
    ELSE VisitRoots(ns, i + 1,
                    IF ns[i].name \in st.visited THEN st
                    ELSE dfs(ns, ns[i].name, st))

\* detect_cycles: [raised, cycles]
detect_cycles(ns) == VisitRoots(ns, 1, DfsState({}, <<>>, <<>>, 0, FALSE))

\* the first call returns
DetectCycles ==
    /\ pc = "build"
    /\ ~detect_cycles(nodes).raised
    /\ cycles' = detect_cycles(nodes).cycles
    /\ first_result' = cycles'
    /\ pc' = "detected"
    /\ UNCHANGED <<config, file_exists, outfile, readme, passes, exit_code,
                   resolver, harness, classifier, nodes, edges>>

\* the first call raises RecursionError; self.cycles keeps what was found
DetectCyclesRaises ==
    /\ pc = "build"
    /\ detect_cycles(nodes).raised
    /\ cycles' = detect_cycles(nodes).cycles
    /\ pc' = "raised"
    /\ UNCHANGED <<config, file_exists, outfile, readme, passes, exit_code,
                   resolver, harness, classifier, nodes, edges, first_result>>

\* the second call on the same graph
DetectAgain ==
    /\ pc = "detected"
    /\ ~detect_cycles(nodes).raised
    /\ cycles' = detect_cycles(nodes).cycles
    /\ pc' = "redetected"
    /\ UNCHANGED <<config, file_exists, outfile, readme, passes, exit_code,
                   resolver, harness, classifier, nodes, edges, first_result>>

InitGraph ==
    /\ pc = "build"
    /\ lang = "python"
    /\ keep_comments = FALSE
    /\ claude = FALSE
    /\ include_all = FALSE
    /\ archive = <<>>
    /\ file_exists = FALSE
    /\ outfile = <<>>
    /\ readme = [path |-> <<>>, content |-> <<>>]
    /\ names = <<>>
    /\ pos = 0
    /\ manifest_entries = <<>>
    /\ included_files = <<>>
    /\ next_doc_index = 0
    /\ exit_code = NoExit
    /\ host = "github.com"
    /\ requested_ref = "main"
    /\ branch_or_tag = "main"
    /\ lookup = "none"
    /\ download_url = [host |-> "github.com", ref |-> "main"]
    /\ src_text = <<>>
    /\ norm1 = [ok |-> TRUE, text |-> <<>>]
    /\ norm2 = [ok |-> TRUE, text |-> <<>>]
    /\ NoClassifier
    /\ nodes = <<>>
    /\ edges = <<>>
    /\ cycles = <<>>
    /\ first_result = <<>>

NextGraph ==
    \/ AddDependency
    \/ DetectCycles
    \/ DetectCyclesRaises
    \/ DetectAgain

SpecGraph == InitGraph /\ [][NextGraph]_vars

(***************************************************************************)
(* Reading the artifact back                                               *)
(***************************************************************************)
\* the run wrote everything and ended with status zero
Finished == pc = "exit" /\ exit_code = 0

\* positions of the <document index="N"> lines
DocPositions == {i \in 1..Len(outfile) : outfile[i].k = "doc_open"}
DocIndex(d) == outfile[d].idx
\* the <source> line follows the <document> line
DocSource(d) == outfile[d + 1].path

ManifestPositions == {i \in 1..Len(outfile) : outfile[i].k = "manifest"}
ManifestAt == CHOOSE i \in ManifestPositions : TRUE
\* the rows of the manifest as written
ManifestRows == outfile[ManifestAt].rows
RowsOf(p) == {r \in 1..Len(ManifestRows) : ManifestRows[r].path = p}

\* the <source> lines and '# File:' headers of the documents and blocks that
\* follow the manifest: one per emitted file
FileSourcePositions ==
    {i \in (ManifestAt + 1)..Len(outfile) : outfile[i].k \in {"source", "header"}}

\* every place of the artifact text where a path is printed
PathOccurs(p) ==
    \/ \E i \in 1..Len(outfile) : outfile[i].path = p
    \/ \E i \in ManifestPositions :
          \E r \in 1..Len(outfile[i].rows) : outfile[i].rows[r].path = p

\* the names of the archive that are files
FileNames == {archive[i].path : i \in {j \in 1..Len(archive) :
                                          ~EndsWith(archive[j].path, s_slash)}}

Readable(p) == ~ReadRaises(archive, p)
DetectedBinary(p) == is_binary_file(Sample(zip_read(archive, p)))

(***************************************************************************)
(* C1                                                                      *)
(***************************************************************************)
\* C1: in the structured artifact every manifest row with a link target N
\* has exactly one emitted document of index N, whose <source> is the row's
\* path -- for every listing, repeated paths included.
C1_ManifestLinks ==
    (Finished /\ claude) =>
        \A r \in 1..Len(ManifestRows) :
            ManifestRows[r].link # None =>
                \E d \in DocPositions :
                    /\ DocIndex(d) = ManifestRows[r].link
                    /\ DocSource(d) = ManifestRows[r].path
                    /\ \A e \in DocPositions :
                          DocIndex(e) = ManifestRows[r].link => e = d

(***************************************************************************)
(* C2                                                                      *)
(***************************************************************************)
\* C2: a file whose first SampleSize bytes hold a NUL byte or do not decode
\* is never the source of emitted content, in either mode and with or
\* without include_all; it has a manifest row "Binary file" with no link.
C2_BinaryNeverEmitted ==
    Finished =>
        \A p \in FileNames :
            (Readable(p) /\ DetectedBinary(p)) =>
                /\ \A i \in 1..Len(outfile) :
                      outfile[i].k \in {"source", "header"} =>
                          outfile[i].path # p
                /\ RowsOf(p) # {}
                /\ \A r \in RowsOf(p) :
                      /\ ManifestRows[r].desc = "Binary file"
                      /\ ManifestRows[r].link = None

(***************************************************************************)
(* C5                                                                      *)
(***************************************************************************)
\* C5: when a step fails after the output file was opened, the run exits
\* non-zero and no artifact is left at the output path.
C5_AllOrNothing ==
    (pc = "exit" /\ exit_code # 0) => ~file_exists

(***************************************************************************)
(* C3                                                                      *)
(***************************************************************************)
\* C3: for every source x that parses, normalizing normalize(x) succeeds
\* and returns normalize(x) again.
C3_Idempotent ==
    pc = "renormalized" => (norm2.ok /\ norm2.text = norm1.text)

(***************************************************************************)
(* C4                                                                      *)
(***************************************************************************)
\* the lookup was attempted and did not deliver a branch list with names
LookupFailed ==
    /\ lookup.attempted
    /\ \/ lookup.response.kind \in {"raises", "not_json", "object"}
       \/ lookup.response.status # 200
       \/ \E i \in 1..Len(lookup.response.body) :
             lookup.response.body[i] \in {"no_name", "not_object"}

\* C4: whenever the branch lookup is attempted and fails in any way, the run
\* goes on to the download and the ref of the download URL is main.
C4_FallbackMain ==
    (host \in {"github.com", "gitlab.com"} /\ LookupFailed) =>
        /\ pc \in {"construct", "fetch", "open", "exit"}
        /\ pc \in {"fetch", "open", "exit"} => download_url.ref = "main"

(***************************************************************************)
(* C6                                                                      *)
(***************************************************************************)
\* the b-th block of three writes of a plain artifact, counted from 0
BlockHeader(b) == outfile[3 * b + 1]
BlockBody(b) == outfile[3 * b + 2]
BlockEnd(b) == outfile[3 * b + 3]

RejectedAsTest(p) ==
    /\ Readable(p)
    /\ ~DetectedBinary(p)
    /\ is_file_type(p, lang)
    /\ \/ Contains(Lower(p), s_test)
       \/ UnderExcludedDir(p, lang)
       \/ is_test_file(DecodeReplace(zip_read(archive, p)), lang)

\* C7: without include_all the path of a rejected test or example file is
\* printed nowhere in the artifact.
C7_RejectedPathAbsent ==
    (Finished /\ ~include_all) =>
        \A p \in FileNames : RejectedAsTest(p) => ~PathOccurs(p)

(***************************************************************************)
(* C8                                                                      *)
(***************************************************************************)
\* the scenario: calc.py of 50 substantive lines, its test, README.md;
\* structured mode, language python, no include_all
Scenario ==
    /\ archive = ScenarioArchive
    /\ claude
    /\ lang = "python"
    /\ ~include_all

\* the sequence of (index, source) of the emitted documents, in order
RECURSIVE DocList(_)
DocList(i) ==
    IF i > Len(outfile) THEN <<>>
    ELSE IF outfile[i].k = "doc_open"
       THEN <<[idx |-> outfile[i].idx, source |-> outfile[i + 1].path]>>
            \o DocList(i + 1)
    ELSE DocList(i + 1)

TestRowExcluded ==
    /\ RowsOf(p_test_calc) # {}
    /\ \A r \in RowsOf(p_test_calc) :
          /\ ManifestRows[r].desc = "Excluded file"
          /\ ManifestRows[r].link = None

\* C8 as stated: the scenario emits exactly 2 documents, the README and
\* calc.py, and the manifest marks tests/test_calc.py excluded with no link.
C8_TwoDocuments ==
    (Finished /\ Scenario) =>
        /\ Cardinality(DocPositions) = 2
        /\ {DocSource(d) : d \in DocPositions} = {p_README_md, p_calc}
        /\ TestRowExcluded

\* C8 amended: the scenario emits exactly 3 documents: the README with
\* index 0, the manifest with index 1 and calc.py with index 2, so exactly 2
\* documents hold archive content; the manifest marks tests/test_calc.py
\* excluded with no link and links src/calc.py to 2.
C8_Scenario ==
    (Finished /\ Scenario) =>
        /\ DocList(1) = <<[idx |-> 0, source |-> p_README_md],
                          [idx |-> 1, source |-> s_manifest_txt],
                          [idx |-> 2, source |-> p_calc]>>
        /\ TestRowExcluded
        /\ \A r \in RowsOf(p_calc) : ManifestRows[r].link = 2
        /\ \A r \in RowsOf(p_README_md) : ManifestRows[r].link = None

\* the scenario has run to its end
C8_Witness ==
    /\ Finished
    /\ Scenario
    /\ Len(ManifestRows) = 3
    /\ Len(included_files) = 1

(***************************************************************************)
(* C9                                                                      *)
(***************************************************************************)
\* find_readme_content has returned
ReadmeFound == pc \in {"first_pass", "documents"} \/ Finished

ReadmeMd == FirstMatch(archive, s_slash \o s_README_md, s_README_md)
ReadmePlain == FirstMatch(archive, s_slash \o s_README, s_README)
Decoded(i) == DecodeReplace(zip_read(archive, archive[i].path))

\* C9: the content is that of a README.md entry if there is one, else that
\* of a README entry if there is one, else the placeholder; the path is the
\* path of the entry whose content is returned and is empty exactly when
\* the placeholder is returned.
C9_ReadmeChain ==
    ReadmeFound =>
        /\ (ReadmeMd # 0 /\ Decoded(ReadmeMd) # <<>>) =>
              /\ readme.content = Decoded(ReadmeMd)
              /\ readme.path = archive[ReadmeMd].path
        /\ (ReadmeMd = 0 /\ ReadmePlain # 0 /\ Decoded(ReadmePlain) # <<>>) =>
              /\ readme.content = Decoded(ReadmePlain)
              /\ readme.path = archive[ReadmePlain].path
        /\ (ReadmeMd = 0 /\ ReadmePlain = 0) => readme.content = Placeholder
        /\ readme.path = <<>> <=> readme.content = Placeholder
        /\ readme.path # <<>> =>
              \E i \in 1..Len(archive) :
                  /\ archive[i].path = readme.path
                  /\ readme.content = Decoded(i)

(***************************************************************************)
(* C10                                                                     *)
(***************************************************************************)
\* a readable text file under an excluded directory of the active language
\* whose extension is valid for that language
ExcludedDirCase(p) ==
    /\ Readable(p)
    /\ ~DetectedBinary(p)
    /\ UnderExcludedDir(p, lang)
    /\ is_file_type(p, lang)

NoLink(p) ==
    /\ RowsOf(p) # {}
    /\ \A r \in RowsOf(p) : ManifestRows[r].link = None

\* C10 as stated: such a path has a manifest row with no link and is not
\* emitted as a document.
C10_ExcludedDirWins ==
    Finished =>
        \A p \in FileNames :
            ExcludedDirCase(p) =>
                /\ NoLink(p)
                /\ \A i \in 1..Len(outfile) :
                      outfile[i].k \in {"source", "header"} =>
                          outfile[i].path # p

\* C10 amended: when include_all is off, such a path has a manifest row with
\* no link and is not emitted as one of the file documents that follow the
\* manifest (it is emitted only if it is the entry chosen as README).
C10_ExcludedDirWinsUnlessAll ==
    (Finished /\ ~include_all) =>
        \A p \in FileNames :
            ExcludedDirCase(p) =>
                /\ NoLink(p)
                /\ \A i \in FileSourcePositions : outfile[i].path # p

\* a finished run without include_all over an archive that holds
\* examples/demo.py, with language python
C10_Witness ==
    /\ Finished
    /\ ~include_all
    /\ lang = "python"
    /\ p_demo \in FileNames
    /\ ExcludedDirCase(p_demo)
    /\ NoLink(p_demo)

(***************************************************************************)
(* C11                                                                     *)
(***************************************************************************)
\* the body written after the <source> line or '# File:' header at i
BodyAt(i) == outfile[i + 1]

\* the entries of the archive listed under the path p
EntriesNamed(p) == {i \in 1..Len(archive) : archive[i].path = p}

\* the path fails one of the filters that include_all overrides
FailsSomeFilter(p) ==
    \/ ~is_file_type(p, lang)
    \/ ~is_likely_useful_file(p, lang)
    \/ is_test_file(DecodeReplace(zip_read(archive, p)), lang)
    \/ ~has_sufficient_content(DecodeReplace(zip_read(archive, p)))

\* C11: with include_all set, every archive entry that is not a directory,
\* is read without error and is not detected binary is emitted as a document
\* (one per listing of its path, holding its decoded content when comments
\* are kept), whatever its extension, its path and its content say to the
\* filters.
C11_IncludeAllEmits ==
    (Finished /\ include_all) =>
        \A p \in FileNames :
            (Readable(p) /\ ~DetectedBinary(p)) =>
                LET at == {i \in FileSourcePositions : outfile[i].path = p}
                IN  /\ Cardinality(at) = Cardinality(EntriesNamed(p))
                    /\ \A i \in at :
                          /\ BodyAt(i).k = "text"
                          /\ keep_comments =>
                                BodyAt(i).text =
                                    DecodeReplace(zip_read(archive, p))

\* a finished include_all run that emitted a file under a dot directory,
\* or a test file under tests/, which the filters alone reject
C11_Witness ==
    /\ Finished
    /\ include_all
    /\ lang = "python"
    /\ \E p \in {p_hidden, p_test_calc} :
          /\ p \in FileNames
          /\ FailsSomeFilter(p)
          /\ \E i \in FileSourcePositions : outfile[i].path = p

(***************************************************************************)
(* C12                                                                     *)
(***************************************************************************)
\* the complete content is valid UTF-8 and holds no NUL character
ValidUtf8NoNul(content) ==
    \A i \in 1..Len(content) : content[i].tok \notin {"\\xff", "NUL"}

\* C12: a file whose complete content is valid UTF-8 without NUL is never
\* given the manifest row "Binary file", whatever its length and wherever its
\* multi-byte characters fall; when it passes the other filters it is
\* emitted, with its text unchanged when comments are kept.
C12_UnicodePreserved ==
    Finished =>
        \A p \in FileNames :
            (Readable(p) /\ ValidUtf8NoNul(zip_read(archive, p))) =>
                /\ \A r \in RowsOf(p) : ManifestRows[r].desc # "Binary file"
                /\ should_include(p, zip_read(archive, p)) =>
                      \E i \in FileSourcePositions :
                          /\ outfile[i].path = p
                          /\ keep_comments =>
                                BodyAt(i).text = zip_read(archive, p)

(***************************************************************************)
(* C13                                                                     *)
(***************************************************************************)
s_py == <<".", "p", "y">>

\* the text holds a definition whose first statement is a string
HasDocstring(text) ==
    LET ls == CodeLines(text)
    IN  \E i \in 1..(Len(ls) - 1) :
           /\ ls[i].tok = "def"
           /\ ls[i + 1].tok = "str"
           /\ ls[i + 1].ind > ls[i].ind

\* the decoded archive content of the file emitted at i
ArchiveContentAt(i) == DecodeReplace(zip_read(archive, outfile[i].path))

C14_OtherRefUnchanged ==
    requested_ref \notin {"main", "master"} =>
        /\ ~lookup.attempted
        /\ branch_or_tag = requested_ref
        /\ pc \in {"fetch", "open"} => download_url.ref = requested_ref

\* the URL was built for the requested ref dev
C14_Witness ==
    /\ requested_ref = "dev"
    /\ pc = "fetch"
    /\ download_url.ref = "dev"
    /\ ~lookup.attempted

(***************************************************************************)
(* C15                                                                     *)
(***************************************************************************)
\* C15: once the archive is open, the run ends with a non-zero status only
\* when opening the output file or a write to it fails; a failure of a single
\* entry -- the README entry included -- never makes the run exit non-zero.
C15_EntryFailureNotFatal ==
    [][(exit_code = NoExit /\ exit_code' # NoExit /\ exit_code' # 0) =>
          (OpenFails \/ WriteFails)]_vars

(***************************************************************************)
(* C16                                                                     *)
(***************************************************************************)
\* the rows of the manifest that carry a link
LinkedRows == {r \in 1..Len(ManifestRows) : ManifestRows[r].link # None}

\* the row is of a .py file whose decoded content ast.parse rejects
ParseFailsFor(r) ==
    /\ EndsWith(ManifestRows[r].path, s_py)
    /\ ~ast_parse(DecodeReplace(zip_read(archive, ManifestRows[r].path))).ok

\* C16: in a python run without keep_comments every included .py file that
\* does not parse is emitted with its decoded content unchanged, in
\* structured mode under the index of its manifest row, and the run emits one
\* document per linked row, so the other files are processed as usual.
C16_FailsOpen ==
    (Finished /\ lang = "python" /\ ~keep_comments) =>
        /\ Cardinality(FileSourcePositions) = Cardinality(LinkedRows)
        /\ \A r \in LinkedRows :
              ParseFailsFor(r) =>
                  \E i \in FileSourcePositions :
                      /\ outfile[i].path = ManifestRows[r].path
                      /\ BodyAt(i).text = ArchiveContentAt(i)
                      /\ claude => outfile[i - 1].idx = ManifestRows[r].link

(***************************************************************************)
(* C18                                                                     *)
(***************************************************************************)
\* the <source> lines and '# File:' headers of the whole artifact
SourcePositions ==
    {i \in 1..Len(outfile) : outfile[i].k \in {"source", "header"}}

\* C18: in both modes the first document or block of a finished artifact is
\* the README that find_readme_content selects, and the documents of the
\* included files come after it with their paths in ascending order,
\* whatever the order of the archive listing.
C18_ReadmeFirstSortedFiles ==
    Finished =>
        /\ \E f \in SourcePositions :
              /\ \A i \in SourcePositions : f <= i
              /\ f < ManifestAt
              /\ outfile[f].path = find_readme_content(archive).path
              /\ BodyAt(f).text = find_readme_content(archive).content
        /\ \A i, j \in FileSourcePositions :
              i < j => ~StrLess(outfile[j].path, outfile[i].path)

\* a finished run that emitted two files in ascending order of their paths
\* from an archive that lists them in descending order
C18_Witness ==
    /\ Finished
    /\ \E i, j \in FileSourcePositions :
          /\ i < j
          /\ StrLess(outfile[i].path, outfile[j].path)
          /\ \E a, b \in 1..Len(archive) :
                /\ a < b
                /\ archive[a].path = outfile[j].path
                /\ archive[b].path = outfile[i].path

(***************************************************************************)
(* C19                                                                     *)
(***************************************************************************)
\* the entries of the archive that are files
FileEntries == {i \in 1..Len(archive) : ~EndsWith(archive[i].path, s_slash)}

\* the file of the path was excluded, detected binary or failed processing
NotIncluded(p) ==
    \/ ~Readable(p)
    \/ DetectedBinary(p)
    \/ ~should_include(p, DecodeReplace(zip_read(archive, p)))

\* C19: the manifest of a finished run has one row per file entry of the
\* archive; a row's link is None exactly when its file was excluded, detected
\* binary or failed processing; every other row's link is the index of an
\* emitted document whose <source> is the row's path (in plain mode: the
\* path has a block).
C19_ManifestCrossReference ==
    Finished =>
        /\ Len(ManifestRows) = Cardinality(FileEntries)
        /\ \A p \in FileNames :
              Cardinality(RowsOf(p)) = Cardinality(EntriesNamed(p))
        /\ \A r \in 1..Len(ManifestRows) :
              /\ ManifestRows[r].link = None <=>
                    NotIncluded(ManifestRows[r].path)
              /\ ManifestRows[r].link # None =>
                    IF claude
                       THEN \E d \in DocPositions :
                               /\ d > ManifestAt
                               /\ DocIndex(d) = ManifestRows[r].link
                               /\ DocSource(d) = ManifestRows[r].path
                    ELSE \E i \in FileSourcePositions :
                            outfile[i].path = ManifestRows[r].path

(***************************************************************************)
(* C20                                                                     *)
(***************************************************************************)
\* the step gives a file its index: it appends a manifest entry with a link
AssignsIndex ==
    /\ Len(manifest_entries') = Len(manifest_entries) + 1
    /\ manifest_entries'[Len(manifest_entries')].idx # None

\* C20: every step that assigns the index of an included file is taken
\* while nothing has been written to the artifact yet.
C20_PrePassBeforeWriting ==
    [][AssignsIndex => outfile = <<>>]_vars

(***************************************************************************)
(* C21                                                                     *)
(***************************************************************************)
\* C21: in structured mode the documents of a finished artifact carry the
\* indices 0, 1, ..., K+1 in the order written, K being the number of included
\* files: the README has 0, the manifest 1 and the k-th included file k+1.
C21_ContiguousIndices ==
    (Finished /\ claude) =>
        LET dl == DocList(1)
        IN  /\ Len(dl) = Cardinality(LinkedRows) + 2
            /\ \A i \in 1..Len(dl) : dl[i].idx = i - 1
            /\ dl[1].source = find_readme_content(archive).path
            /\ dl[2].source = s_manifest_txt

(***************************************************************************)
(* C22                                                                     *)
(***************************************************************************)
\* the first rule the file of the path p fails, in the order dot-prefixed
\* segment, excluded directory, 'test' substring, extension mismatch, binary,
\* content-based test detection, insufficient substantive lines
FirstFailedRule(p) ==
    LET content == DecodeReplace(zip_read(archive, p))
    IN  CASE "." \in PartStarts(p) -> "dot segment"
          [] UnderExcludedDir(p, lang) -> "excluded directory"
          [] Contains(Lower(p), s_test) -> "test substring"
          [] ~is_file_type(p, lang) -> "extension"
          [] DetectedBinary(p) -> "binary"
          [] is_test_file(content, lang) -> "test content"
          [] ~has_sufficient_content(content) -> "lines"
          [] OTHER -> "none of them"

\* C22: without include_all every file that is read and not included has a
\* manifest row without link whose description is the reason of the first
\* rule it fails: the description is "Binary file" exactly when that rule is
\* the binary rule, and files whose first failed rules differ have
\* different descriptions.
C22_FirstFailingReason ==
    (Finished /\ ~include_all) =>
        \A r \in 1..Len(ManifestRows) :
            LET p == ManifestRows[r].path
            IN  (Readable(p) /\ ManifestRows[r].link = None) =>
                   /\ ManifestRows[r].desc = "Binary file" <=>
                         FirstFailedRule(p) = "binary"
                   /\ \A q \in 1..Len(ManifestRows) :
                         (/\ Readable(ManifestRows[q].path)
                          /\ ManifestRows[q].link = None
                          /\ FirstFailedRule(ManifestRows[q].path)
                                # FirstFailedRule(p)) =>
                             ManifestRows[q].desc # ManifestRows[r].desc

(***************************************************************************)
(* C24                                                                     *)
(***************************************************************************)
\* the documents or blocks of the artifact whose source is the path p, the
\* README document included
EmittedAs(p) == {i \in SourcePositions : outfile[i].path = p}

\* C24: in a finished artifact every archive path is the source of at most
\* one document or block, with include_all too.
C24_PathEmittedOnce ==
    Finished => \A p \in FileNames : Cardinality(EmittedAs(p)) <= 1

(***************************************************************************)
(* C23                                                                     *)
(***************************************************************************)
\* the dotfiles the classifier is to let pass: an ignore-file, an env template
AllowListed(p) ==
    \/ p = p_gitignore \/ EndsWith(p, s_slash \o p_gitignore)
    \/ p = p_env_example \/ EndsWith(p, s_slash \o p_env_example)

\* C23: is_likely_useful_file returns False for every path that has a
\* segment starting with '.' and is not an allow-listed dotfile; for an
\* allow-listed dotfile (under a top-level folder that does not start with
\* '.') the call is not ended by the dot-segment rule.
C23_DotSegmentAllowList ==
    pc = "classified" =>
        \A i \in 1..2 :
            LET file_path == tops[i] \o rel_path
            IN  /\ ("." \in PartStarts(file_path) /\ ~AllowListed(file_path))
                      => ~verdicts[i].useful
                /\ (AllowListed(file_path) /\ Head(tops[i]) # ".")
                      => verdicts[i].rule # "dot segment"

(***************************************************************************)
(* C25                                                                     *)
(***************************************************************************)
\* C25: a file gets the same answer of the path tests of should_include
\* under both names of the top-level folder (its content, and so the content
\* tests, are the same in both archives).
C25_TopFolderIndependent ==
    pc = "classified" =>
        (verdicts[1].file_type /\ verdicts[1].useful)
            = (verdicts[2].file_type /\ verdicts[2].useful)

(***************************************************************************)
(* C26                                                                     *)
(***************************************************************************)
\* the edges added, as a relation
EdgeTo(m, n) == \E i \in 1..Len(edges) : edges[i].source = m /\ edges[i].target = n

\* the nodes reached from n in 1..k steps
RECURSIVE ReachedIn(_, _)
ReachedIn(n, k) ==
    IF k = 0 THEN {}
    ELSE LET near == {m \in GraphNodes : EdgeTo(n, m)}
         IN  near \cup UNION {ReachedIn(m, k - 1) : m \in near}

HasCycle == \E n \in GraphNodes : n \in ReachedIn(n, Cardinality(GraphNodes))

\* each node has an edge to the next, the last to the first
IsCycle(c) ==
    /\ c # <<>>
    /\ \A i \in 1..Len(c) : EdgeTo(c[i], c[(i % Len(c)) + 1])

DetectionExact ==
    /\ (cycles # <<>>) <=> HasCycle
    /\ \A i \in 1..Len(cycles) : IsCycle(cycles[i])

\* C26: after any sequence of add_dependency calls, detect_cycles returns;
\* it returns a non-empty list exactly when the graph has a directed cycle,
\* every list returned is a cycle of the graph, and a second call returns
\* what the first returned.
C26_DetectCyclesExact ==
    /\ pc # "raised"
    /\ pc \in {"detected", "redetected"} => DetectionExact
    /\ pc = "redetected" => cycles = first_result

====
